---------------------------- MODULE Spec2Model ----------------------------
(***************************************************************************)
(* A model of cta_analyzer.py (the Clinical Trial Agreement analyzer).     *)
(* Texts are strings; a character is a string of length one.  The text     *)
(* functions of the script are operators over strings, computed the way    *)
(* the Python code computes them; the script's top-level logic is a step   *)
(* machine over the statements of one processing pass.                     *)
(***************************************************************************)
EXTENDS Integers, Sequences, FiniteSets, TLC

VARIABLES
    text,       \* the input text of a text function (a string)
    ntok,       \* how many fragments the input text was composed of
    op,         \* "input", or the last text function applied
    cleaned,    \* clean_text(text)
    recleaned,  \* clean_text(clean_text(text))
    risks,      \* flag_risks(text)
    milestones, \* extract_milestones(text)
    clauses,    \* extract_key_clauses(text)
    pc,             \* the statement of the script the pass is at
    uploaded_file,  \* what st.file_uploader returned
    bound,          \* whether the script's variable text is assigned
    rendered,       \* the elements rendered so far, in order
    raster,         \* the call of convert_from_bytes, if any, and the read
                    \* position of the upload stream its bytes start from
    images,         \* the page images convert_from_bytes returned
    api_calls,      \* the inputs summarize_with_api was called with
    api_result,     \* what the last call of summarize_with_api did
    error           \* the exception that halted the pass, or "none"

results == <<cleaned, recleaned, risks, milestones, clauses>>
textVars == <<text, ntok, op, results>>
passVars == <<pc, uploaded_file, bound, rendered, raster, images,
              api_calls, api_result, error>>
vars == <<textVars, passVars>>

(***************************************************************************)
(* Bounds of the model.                                                    *)
(***************************************************************************)
\* fragments an input text of clean_text is composed of
MaxLineTokens == 2
\* fragments an input text of flag_risks is composed of
MaxRiskTokens == 3
\* fragments an input text of extract_milestones is composed of
MaxMilestoneTokens == 3
\* fragments an input text of extract_key_clauses is composed of
MaxClauseTokens == 3
\* copies of a line that one bulk insertion adds
BulkCount == 31
\* pages of an uploaded document
MaxPages == 2

(***************************************************************************)
(* Python str primitives.                                                  *)
(***************************************************************************)
Char(s, i) == SubSeq(s, i, i)

\* s[a-1:b] for 1 <= a, clipped to the string like a Python slice
Slice(s, a, b) == IF a > b \/ a > Len(s) THEN "" ELSE SubSeq(s, a, IF b > Len(s) THEN Len(s) ELSE b)

RECURSIVE Repeat(_, _)
Repeat(s, n) ==
    IF n <= 0 THEN ""
    ELSE IF n = 1 THEN s
    ELSE Repeat(s, n \div 2) \o Repeat(s, n - (n \div 2))

LowerMap ==
    "A" :> "a" @@ "B" :> "b" @@ "C" :> "c" @@ "D" :> "d" @@ "E" :> "e" @@
    "F" :> "f" @@ "G" :> "g" @@ "H" :> "h" @@ "I" :> "i" @@ "J" :> "j" @@
    "K" :> "k" @@ "L" :> "l" @@ "M" :> "m" @@ "N" :> "n" @@ "O" :> "o" @@
    "P" :> "p" @@ "Q" :> "q" @@ "R" :> "r" @@ "S" :> "s" @@ "T" :> "t" @@
    "U" :> "u" @@ "V" :> "v" @@ "W" :> "w" @@ "X" :> "x" @@ "Y" :> "y" @@
    "Z" :> "z"

LowerChar(c) == IF c \in DOMAIN LowerMap THEN LowerMap[c] ELSE c

\* str.lower()
RECURSIVE Lower(_)
Lower(s) ==
    IF Len(s) = 0 THEN ""
    ELSE IF Len(s) = 1 THEN LowerChar(s)
    ELSE LET m == Len(s) \div 2
         IN  Lower(SubSeq(s, 1, m)) \o Lower(SubSeq(s, m + 1, Len(s)))

\* the characters str.strip() removes (those of the model's alphabet)
IsSpace(c) == c \in {" ", "\t", "\n", "\r", "\f"}

\* the line boundaries of str.splitlines() (those of the model's alphabet)
IsLineBreak(c) == c \in {"\n", "\r", "\f"}

IsDigitChar(c) == c \in {"0", "1", "2", "3", "4", "5", "6", "7", "8", "9"}

\* str.isdigit(): non-empty and every character a digit
IsDigit(s) == Len(s) > 0 /\ \A i \in 1..Len(s) : IsDigitChar(Char(s, i))

\* sub in s
Contains(s, sub) ==
    \E i \in 1..(Len(s) - Len(sub) + 1) : SubSeq(s, i, i + Len(sub) - 1) = sub

\* min(S) for a non-empty set of integers
Min(S) == CHOOSE x \in S : \A y \in S : x <= y

\* s.startswith(prefix)
StartsWith(s, prefix) == Len(s) >= Len(prefix) /\ SubSeq(s, 1, Len(prefix)) = prefix

\* the first position in lo..hi holding a line boundary, 0 when there is none
RECURSIVE FirstLineBreak(_, _, _)
FirstLineBreak(s, lo, hi) ==
    IF lo > hi THEN 0
    ELSE IF lo = hi THEN (IF IsLineBreak(Char(s, lo)) THEN lo ELSE 0)
    ELSE LET m == (lo + hi) \div 2
             l == FirstLineBreak(s, lo, m)
         IN  IF l # 0 THEN l ELSE FirstLineBreak(s, m + 1, hi)

\* the first position in lo..hi holding a non-space character, 0 when none
RECURSIVE FirstNonSpace(_, _, _)
FirstNonSpace(s, lo, hi) ==
    IF lo > hi THEN 0
    ELSE IF lo = hi THEN (IF IsSpace(Char(s, lo)) THEN 0 ELSE lo)
    ELSE LET m == (lo + hi) \div 2
             l == FirstNonSpace(s, lo, m)
         IN  IF l # 0 THEN l ELSE FirstNonSpace(s, m + 1, hi)

\* the last position in lo..hi holding a non-space character, 0 when none
RECURSIVE LastNonSpace(_, _, _)
LastNonSpace(s, lo, hi) ==
    IF lo > hi THEN 0
    ELSE IF lo = hi THEN (IF IsSpace(Char(s, lo)) THEN 0 ELSE lo)
    ELSE LET m == (lo + hi) \div 2
             r == LastNonSpace(s, m + 1, hi)
         IN  IF r # 0 THEN r ELSE LastNonSpace(s, lo, m)

\* str.strip()
Strip(s) ==
    LET a == FirstNonSpace(s, 1, Len(s))
    IN  IF a = 0 THEN "" ELSE SubSeq(s, a, LastNonSpace(s, a, Len(s)))

\* the last position in lo..hi holding a line boundary, 0 when there is none
RECURSIVE LastLineBreak(_, _, _)
LastLineBreak(s, lo, hi) ==
    IF lo > hi THEN 0
    ELSE IF lo = hi THEN (IF IsLineBreak(Char(s, lo)) THEN lo ELSE 0)
    ELSE LET m == (lo + hi) \div 2
             r == LastLineBreak(s, m + 1, hi)
         IN  IF r # 0 THEN r ELSE LastLineBreak(s, lo, m)

\* the pieces of s[lo..hi] between its line boundaries ("\r\n" is one
\* boundary), split at a boundary near the middle first
RECURSIVE Pieces(_, _, _)
Pieces(s, lo, hi) ==
    IF lo > hi THEN << "" >>
    ELSE LET m == (lo + hi) \div 2
             f == FirstLineBreak(s, m, hi)
             b == IF f # 0 THEN f ELSE LastLineBreak(s, lo, m - 1)
         IN  IF b = 0 THEN << SubSeq(s, lo, hi) >>
             ELSE LET bs == IF Char(s, b) = "\n" /\ b > lo /\ Char(s, b - 1) = "\r"
                            THEN b - 1 ELSE b
                      be == IF Char(s, b) = "\r" /\ b < hi /\ Char(s, b + 1) = "\n"
                            THEN b + 1 ELSE b
                  IN  Pieces(s, lo, bs - 1) \o Pieces(s, be + 1, hi)

\* str.splitlines(): the pieces between the line boundaries; a final
\* boundary adds no line, and the empty string has no line
SplitLines(s) ==
    LET pieces == Pieces(s, 1, Len(s))
    IN  IF pieces[Len(pieces)] = "" THEN SubSeq(pieces, 1, Len(pieces) - 1) ELSE pieces

\* sep.join(lines)
RECURSIVE JoinRange(_, _, _, _)
JoinRange(lines, sep, lo, hi) ==
    IF lo > hi THEN ""
    ELSE IF lo = hi THEN lines[lo]
    ELSE LET m == (lo + hi) \div 2
         IN  JoinRange(lines, sep, lo, m) \o sep \o JoinRange(lines, sep, m + 1, hi)

Join(sep, lines) == JoinRange(lines, sep, 1, Len(lines))

\* lines[:n]
Take(lines, n) == IF Len(lines) <= n THEN lines ELSE SubSeq(lines, 1, n)

\* [line.strip() for line in lines]
StripAll(lines) == [k \in 1..Len(lines) |-> Strip(lines[k])]

(***************************************************************************)
(* clean_text                                                              *)
(***************************************************************************)
MinLineLen == 10
MaxLinesKept == 30
Sentinel == "No usable text found."

\* clean_text without its "or" fallback
clean_text_NoSentinel(t) ==
    LET lines0 == SplitLines(t)
        lines1 == StripAll(SelectSeq(lines0,
                      LAMBDA line : Len(Strip(line)) > MinLineLen /\ ~IsDigit(Strip(line))))
        lines2 == SelectSeq(lines1, LAMBDA line : ~StartsWith(Lower(line), "whereas"))
        lines3 == SelectSeq(lines2, LAMBDA line : ~Contains(Lower(line), "confidential"))
    IN  Join(" ", Take(lines3, MaxLinesKept))

\* clean_text measuring the line as it stands instead of line.strip()
clean_text_LenUnstripped(t) ==
    LET lines0 == SplitLines(t)
        lines1 == StripAll(SelectSeq(lines0,
                      LAMBDA line : Len(line) > MinLineLen /\ ~IsDigit(Strip(line))))
        lines2 == SelectSeq(lines1, LAMBDA line : ~StartsWith(Lower(line), "whereas"))
        lines3 == SelectSeq(lines2, LAMBDA line : ~Contains(Lower(line), "confidential"))
        joined == Join(" ", Take(lines3, MaxLinesKept))
    IN  IF joined # "" THEN joined ELSE Sentinel

clean_text(t) ==
    LET lines0 == SplitLines(t)
        lines1 == StripAll(SelectSeq(lines0,
                      LAMBDA line : Len(Strip(line)) > MinLineLen /\ ~IsDigit(Strip(line))))
        lines2 == SelectSeq(lines1, LAMBDA line : ~StartsWith(Lower(line), "whereas"))
        lines3 == SelectSeq(lines2, LAMBDA line : ~Contains(Lower(line), "confidential"))
        joined == Join(" ", Take(lines3, MaxLinesKept))
    IN  IF joined # "" THEN joined ELSE Sentinel

(***************************************************************************)
(* flag_risks.  The warning strings are the script's without their leading *)
(* warning sign.                                                           *)
(***************************************************************************)
TerminationWarning == "Termination may favor sponsor"
DiscretionWarning == "One-sided decision-making clause"
PaymentWarning == "Payment obligation is unclear"

\* flag_risks with the later tests chained by elif
flag_risks_elif(t) ==
    IF Contains(Lower(t), "termination for convenience") THEN << TerminationWarning >>
    ELSE IF Contains(Lower(t), "sole discretion") THEN << DiscretionWarning >>
    ELSE IF Contains(Lower(t), "no obligation to pay") THEN << PaymentWarning >>
    ELSE << >>

flag_risks(t) ==
    LET r0 == << >>
        r1 == IF Contains(Lower(t), "termination for convenience")
              THEN Append(r0, TerminationWarning) ELSE r0
        r2 == IF Contains(Lower(t), "sole discretion")
              THEN Append(r1, DiscretionWarning) ELSE r1
        r3 == IF Contains(Lower(t), "no obligation to pay")
              THEN Append(r2, PaymentWarning) ELSE r2
    IN  r3

(***************************************************************************)
(* Regular expressions (module re).  A pattern of MILESTONE_PATTERNS is    *)
(* \b(a1|a2|...)\b: its alternatives are literal strings, in the order the *)
(* regex engine tries them ("close[- ]?out" is tried with the optional     *)
(* character first).                                                       *)
(***************************************************************************)
Letters ==
    DOMAIN LowerMap \cup {LowerMap[c] : c \in DOMAIN LowerMap}

\* \w
IsWordChar(c) == c \in Letters \/ IsDigitChar(c) \/ c = "_"

\* \b between positions k and k+1 of t (k = 0: the start, k = Len(t): the end)
WordBoundary(t, k) ==
    LET before == k >= 1 /\ IsWordChar(Char(t, k))
        after == k < Len(t) /\ IsWordChar(Char(t, k + 1))
    IN  before # after

\* the alternative matched without its \b anchors
AltMatchesAt_NoBoundary(lt, i, alt) ==
    /\ i + Len(alt) - 1 <= Len(lt)
    /\ SubSeq(lt, i, i + Len(alt) - 1) = alt

\* whether alternative alt of \b(...)\b matches at position i of the
\* case-folded text lt
AltMatchesAt(lt, i, alt) ==
    /\ i + Len(alt) - 1 <= Len(lt)
    /\ SubSeq(lt, i, i + Len(alt) - 1) = alt
    /\ WordBoundary(lt, i - 1)
    /\ WordBoundary(lt, i + Len(alt) - 1)

\* re.search(pattern, t, re.IGNORECASE): the leftmost position with a match,
\* and there the first alternative that matches; group(0) is the matched
\* text as it stands in t
RegexSearch(alts, t) ==
    LET lt == Lower(t)
        Hits(i) == {a \in 1..Len(alts) : AltMatchesAt(lt, i, alts[a])}
        P == {i \in 1..Len(t) : Hits(i) # {}}
    IN  IF P = {} THEN [found |-> FALSE, group0 |-> ""]
        ELSE LET i == Min(P)
                 a == Min(Hits(i))
             IN  [found |-> TRUE, group0 |-> SubSeq(t, i, i + Len(alts[a]) - 1)]

(***************************************************************************)
(* extract_milestones.  "Yes" and "No" are the script's cells without      *)
(* their leading mark.                                                     *)
(***************************************************************************)
MILESTONE_PATTERNS ==
    << [label |-> "First Subject In (FSI)", alts |-> << "first subject in", "fsi" >>],
       [label |-> "Last Subject Out (LSO)", alts |-> << "last subject out", "lso" >>],
       [label |-> "Enrollment Completion", alts |-> << "enrollment completion" >>],
       [label |-> "Study Closeout",
        alts |-> << "study close-out", "study close out", "study closeout",
                    "close-out visit", "close out visit", "closeout visit" >>],
       [label |-> "IRB Approval", alts |-> << "irb approval", "irb submission" >>],
       [label |-> "Site Activation", alts |-> << "site activation", "activation date" >>] >>

extract_milestones(t) ==
    [k \in 1..Len(MILESTONE_PATTERNS) |->
        LET match == RegexSearch(MILESTONE_PATTERNS[k].alts, t)
        IN  [Milestone |-> MILESTONE_PATTERNS[k].label,
             Mentioned |-> IF match.found THEN "Yes" ELSE "No",
             Example |-> IF match.found THEN match.group0 ELSE ""]]

(***************************************************************************)
(* extract_key_clauses                                                     *)
(***************************************************************************)
ClauseWindow == 2000

\* the first position >= from where sub occurs in t, 0 when there is none
Find(t, sub, from) ==
    LET P == {i \in from..(Len(t) - Len(sub) + 1) : SubSeq(t, i, i + Len(sub) - 1) = sub}
    IN  IF P = {} THEN 0 ELSE Min(P)

\* re.findall(label + ".*", t): each match runs from the label to the end of
\* its line ("." matches every character but "\n")
RECURSIVE FindallRestOfLine(_, _, _)
FindallRestOfLine(label, t, from) ==
    LET i == Find(t, label, from)
    IN  IF i = 0 THEN << >>
        ELSE LET nl == Find(t, "\n", i)
                 end == IF nl = 0 THEN Len(t) ELSE nl - 1
             IN  << SubSeq(t, i, end) >> \o FindallRestOfLine(label, t, end + 1)

\* how many of the positions i, i+1, ... (at most max) hold digits
DigitRun(t, i, max) ==
    IF \E n \in 1..max : i + n - 1 > Len(t) \/ ~IsDigitChar(Char(t, i + n - 1))
    THEN Min({n \in 1..max : i + n - 1 > Len(t) \/ ~IsDigitChar(Char(t, i + n - 1))}) - 1
    ELSE max

\* (?:,\d{3})* at position i: the position after the last group
RECURSIVE SkipGroups(_, _)
SkipGroups(t, i) ==
    IF i <= Len(t) /\ Char(t, i) = "," /\ DigitRun(t, i + 1, 3) = 3
    THEN SkipGroups(t, i + 4)
    ELSE i

\* (?:,\d)* at position i
RECURSIVE SkipGroups_Loose(_, _)
SkipGroups_Loose(t, i) ==
    IF i <= Len(t) /\ Char(t, i) = "," /\ DigitRun(t, i + 1, 1) = 1
    THEN SkipGroups_Loose(t, i + 2)
    ELSE i

\* the pattern with groups of one digit, \$\d{1,3}(?:,\d)*(?:\.\d{2})?
DollarMatchEnd_Loose(t, i) ==
    IF Char(t, i) # "$" \/ DigitRun(t, i + 1, 3) = 0 THEN 0
    ELSE LET g == SkipGroups_Loose(t, i + 1 + DigitRun(t, i + 1, 3))
         IN  IF g <= Len(t) /\ Char(t, g) = "." /\ DigitRun(t, g + 1, 2) = 2
             THEN g + 3 ELSE g

\* \$\d{1,3}(?:,\d{3})*(?:\.\d{2})? at position i: the position after the
\* match, 0 when there is no match at i
DollarMatchEnd(t, i) ==
    IF Char(t, i) # "$" \/ DigitRun(t, i + 1, 3) = 0 THEN 0
    ELSE LET g == SkipGroups(t, i + 1 + DigitRun(t, i + 1, 3))
         IN  IF g <= Len(t) /\ Char(t, g) = "." /\ DigitRun(t, g + 1, 2) = 2
             THEN g + 3 ELSE g

\* re.findall of the dollar pattern: the matches from left to right, the
\* search resuming where the last match ended
RECURSIVE FindallDollar(_, _)
FindallDollar(t, from) ==
    LET P == {i \in from..Len(t) : DollarMatchEnd(t, i) # 0}
    IN  IF P = {} THEN << >>
        ELSE LET i == Min(P)
                 e == DollarMatchEnd(t, i)
             IN  << SubSeq(t, i, e - 1) >> \o FindallDollar(t, e)

ClauseLabels ==
    << "Sponsor", "Institution", "Investigator", "Budget Amounts",
       "Includes Indemnification", "Includes Injury Clause", "Termination Rights" >>

extract_key_clauses(t) ==
    "Sponsor" :> FindallRestOfLine("Sponsor", Slice(t, 1, ClauseWindow), 1) @@
    "Institution" :> FindallRestOfLine("Institution", Slice(t, 1, ClauseWindow), 1) @@
    "Investigator" :> FindallRestOfLine("Investigator", Slice(t, 1, ClauseWindow), 1) @@
    "Budget Amounts" :> FindallDollar(t, 1) @@
    "Includes Indemnification" :> Contains(t, "Indemnification") @@
    "Includes Injury Clause" :> Contains(t, "Trial Participant Injury") @@
    "Termination Rights" :> Contains(Lower(t), "terminate")

(***************************************************************************)
(* extract_payment_terms_custom.  A row is (Payment Type, Mentioned?,      *)
(* Details).                                                               *)
(***************************************************************************)
PaymentRules ==
    << [triggers |-> {"Administrative Start-Up Fee", "Administrative Start-Up Fees"},
        row |-> [Payment_Type |-> "Startup Fee", Mentioned |-> "Yes", Details |-> "$10,000"]],
       [triggers |-> {"Total Listed Fees: $41,254.93", "Total Cost per Patient"},
        row |-> [Payment_Type |-> "Per Patient Visits", Mentioned |-> "Yes",
                 Details |-> "$41,254.93"]],
       [triggers |-> {"Final payment will consist of", "Fee for cleaning and answering queries"},
        row |-> [Payment_Type |-> "Final Closeout (DB Lock)", Mentioned |-> "Yes",
                 Details |-> "Included in Final Payment"]],
       [triggers |-> {"Local Initial IRB Pass-Through Fees"},
        row |-> [Payment_Type |-> "IRB Fees", Mentioned |-> "Yes", Details |-> "Up to $4,000"]],
       [triggers |-> {"Screen Failure Visit Fee"},
        row |-> [Payment_Type |-> "Screen Failures", Mentioned |-> "Yes",
                 Details |-> "$3,017.02"]],
       [triggers |-> {"Patient Stipend"},
        row |-> [Payment_Type |-> "Patient Stipend", Mentioned |-> "Yes",
                 Details |-> "$150/visit, ~$5,400 total"]],
       [triggers |-> {"Invoiceable Items"},
        row |-> [Payment_Type |-> "Misc. Items (MRI, Re-consent, etc.)", Mentioned |-> "Yes",
                 Details |-> "See appendix"]] >>

extract_payment_terms_custom(t) ==
    LET fired == SelectSeq(PaymentRules,
                     LAMBDA rule : \E trigger \in rule.triggers : Contains(t, trigger))
    IN  [k \in 1..Len(fired) |-> fired[k].row]

(***************************************************************************)
(* The uploaded document and the libraries that read it.  A page has a     *)
(* text layer (what page.extract_text() returns, "" for none) and a scan   *)
(* (what pytesseract.image_to_string returns on the page's image).  The    *)
(* byte stream of a document is a header, one unit per page and a trailer. *)
(***************************************************************************)
None == [present |-> FALSE, pages |-> << >>]

StreamLen(file) == Len(file.pages) + 2

\* str(v) of a clause value: a list of strings or a bool
EscapeChar(c) ==
    IF c = "\n" THEN "\\n"
    ELSE IF c = "\r" THEN "\\r"
    ELSE IF c = "\t" THEN "\\t"
    ELSE IF c = "\f" THEN "\\x0c"
    ELSE c

RECURSIVE Escape(_)
Escape(s) ==
    IF Len(s) = 0 THEN ""
    ELSE IF Len(s) = 1 THEN EscapeChar(s)
    ELSE LET m == Len(s) \div 2
         IN  Escape(SubSeq(s, 1, m)) \o Escape(SubSeq(s, m + 1, Len(s)))

Repr(s) == "'" \o Escape(s) \o "'"

StrOfList(l) == "[" \o Join(", ", [k \in 1..Len(l) |-> Repr(l[k])]) \o "]"

StrOfBool(b) == IF b THEN "True" ELSE "False"

\* "\n".join([page.extract_text() or "" for page in reader.pages])
DirectText(file) == Join("\n", [k \in 1..Len(file.pages) |-> file.pages[k].layer])

OcrThreshold == 100

\* the test of the text layer with len(text) in place of len(text.strip())
UsesDirectText_NoStrip(direct) == Len(direct) > OcrThreshold

\* len(text.strip()) > 100
UsesDirectText(direct) == Len(Strip(direct)) > OcrThreshold

\* convert_from_bytes on the bytes from position from on: the whole stream
\* gives every page; a stream cut at its front gives the pages that are
\* still whole in it, when the rasterizer does not raise
Rasterize(file, from) ==
    IF from = 0 THEN file.pages
    ELSE Slice(file.pages, from, Len(file.pages))

\* "".join([pytesseract.image_to_string(img) for img in images])
OcrText(imgs) == Join("", [k \in 1..Len(imgs) |-> imgs[k].scan])

\* extract_text_from_pdf(file), PdfReader leaving the stream at pos and
\* the rasterizer raising or not
extract_text_from_pdf(file, pos, raises) ==
    LET direct == DirectText(file)
    IN  IF UsesDirectText(direct)
        THEN [returned |-> TRUE, text |-> direct, notice |-> FALSE,
              raster |-> [invoked |-> FALSE, from |-> 0], images |-> << >>]
        ELSE IF raises
        THEN [returned |-> FALSE, text |-> "", notice |-> TRUE,
              raster |-> [invoked |-> TRUE, from |-> pos], images |-> << >>]
        ELSE [returned |-> TRUE, text |-> OcrText(Rasterize(file, pos)), notice |-> TRUE,
              raster |-> [invoked |-> TRUE, from |-> pos], images |-> Rasterize(file, pos)]

(***************************************************************************)
(* summarize_with_api.  The environment of a call: whether the secret      *)
(* HF_API_KEY is there, whether the request gets through, the status and   *)
(* the payload of the response.                                            *)
(***************************************************************************)
ApiEnvironments ==
    { [secret |-> FALSE, connected |-> TRUE, status |-> 200, payload |-> "summary"],
      [secret |-> TRUE, connected |-> FALSE, status |-> 200, payload |-> "summary"],
      [secret |-> TRUE, connected |-> TRUE, status |-> 200, payload |-> "summary"],
      [secret |-> TRUE, connected |-> TRUE, status |-> 200, payload |-> "error_object"],
      [secret |-> TRUE, connected |-> TRUE, status |-> 400, payload |-> "error_object"],
      [secret |-> TRUE, connected |-> TRUE, status |-> 503, payload |-> "error_object"] }

summarize_with_api(input, env) ==
    IF ~env.secret THEN [called |-> TRUE, raised |-> TRUE, value |-> "KeyError"]
    ELSE IF ~env.connected THEN [called |-> TRUE, raised |-> TRUE, value |-> "ConnectionError"]
    ELSE IF env.status = 200
    THEN IF env.payload = "summary"
         THEN [called |-> TRUE, raised |-> FALSE, value |-> "summary of: " \o input]
         ELSE [called |-> TRUE, raised |-> TRUE, value |-> "KeyError"]
    ELSE [called |-> TRUE, raised |-> TRUE, value |-> "ValueError"]

(***************************************************************************)
(* The main logic of the script: one processing pass.                      *)
(***************************************************************************)
SummaryFallbackLen == 1000

Element(widget, body) == [widget |-> widget, body |-> body]

Render(elements) == rendered' = rendered \o elements

DigitalLayer ==
    "Sponsor: Acme Pharma\nInstitution: Metro Hospital\n"
    \o "In its sole discretion Sponsor has no obligation to pay.\n"
    \o "first subject in: Total Cost per Patient $41,254.93\n"

BorderlineLayer == "  " \o Repeat("abcdefghi ", 9) \o "abcdefghij" \o "\n "

HalfLayer == Repeat("abcd ", 10)

PageVocab ==
    { [layer |-> DigitalLayer, scan |-> DigitalLayer],
      [layer |-> BorderlineLayer,
       scan |-> "termination for convenience\nPatient Stipend per visit\n"],
      [layer |-> "", scan |-> ""],
      [layer |-> HalfLayer,
       scan |-> "WHEREAS the parties agree\nStrictly confidential\n$1,000"] }

Documents ==
    UNION { [1..n -> PageVocab] : n \in 1..MaxPages }

\* uploaded_file = st.file_uploader(...)
FileUploader ==
    /\ pc = "file_uploader"
    /\ \/ uploaded_file' = None
       \/ \E pages \in Documents : uploaded_file' = [present |-> TRUE, pages |-> pages]
    /\ pc' = "if_uploaded"
    /\ UNCHANGED <<textVars, bound, rendered, raster, images, api_calls,
                   api_result, error>>

\* if uploaded_file: text = extract_text_from_pdf(uploaded_file)
ExtractText ==
    /\ pc = "if_uploaded"
    /\ uploaded_file.present
    /\ \E pos \in 0..StreamLen(uploaded_file), raises \in BOOLEAN :
          LET r == extract_text_from_pdf(uploaded_file, pos, raises)
          IN  \* a call that never reaches the rasterizer cannot see it raise,
              \* and the rasterizer renders the complete stream
              /\ raises => (r.raster.invoked /\ pos > 0)
              /\ raster' = r.raster
              /\ images' = r.images
              /\ Render(IF r.notice
                        THEN << Element("warning",
                                "Detected a scanned or image-based PDF. Running OCR...") >>
                        ELSE << >>)
              /\ IF r.returned
                 THEN /\ text' = r.text
                      /\ bound' = TRUE
                      /\ pc' = "clause_section"
                      /\ error' = error
                 ELSE /\ pc' = "halted"
                      /\ error' = "PDFPageCountError"
                      /\ UNCHANGED <<text, bound>>
    /\ UNCHANGED <<ntok, op, results, uploaded_file, api_calls, api_result>>

\* if uploaded_file: not taken
SkipUploadBlock ==
    /\ pc = "if_uploaded"
    /\ ~uploaded_file.present
    /\ pc' = "payment_section"
    /\ UNCHANGED <<textVars, uploaded_file, bound, rendered, raster, images,
                   api_calls, api_result, error>>

\* the clause summary: clauses, df, st.dataframe(df)
ClauseSection ==
    /\ pc = "clause_section"
    /\ clauses' = extract_key_clauses(text)
    /\ Render(<< Element("subheader", "Clause Summary"),
                 Element("dataframe",
                     [k \in 1..Len(ClauseLabels) |->
                         [Clause |-> ClauseLabels[k],
                          Extracted_Info |->
                              IF k <= 4 THEN StrOfList(clauses'[ClauseLabels[k]])
                              ELSE StrOfBool(clauses'[ClauseLabels[k]])]]) >>)
    /\ pc' = "milestone_section"
    /\ UNCHANGED <<text, ntok, op, cleaned, recleaned, risks, milestones, uploaded_file,
                   bound, raster, images, api_calls, api_result, error>>

\* the milestone tracker
MilestoneSection ==
    /\ pc = "milestone_section"
    /\ milestones' = extract_milestones(text)
    /\ Render(<< Element("subheader", "Clinical Trial Milestones"),
                 Element("dataframe", milestones') >>)
    /\ pc' = "payment_section"
    /\ UNCHANGED <<text, ntok, op, cleaned, recleaned, risks, clauses, uploaded_file,
                   bound, raster, images, api_calls, api_result, error>>

\* the payment terms summary, at the top level of the script: reading the
\* variable text raises NameError when it was never assigned
PaymentSection ==
    /\ pc = "payment_section"
    /\ IF bound
       THEN /\ Render(<< Element("subheader", "Payment Terms Summary (Custom)"),
                         Element("dataframe", extract_payment_terms_custom(text)) >>)
            /\ pc' = "chart_try"
            /\ error' = error
       ELSE /\ Render(<< Element("subheader", "Payment Terms Summary (Custom)") >>)
            /\ pc' = "halted"
            /\ error' = "NameError"
    /\ UNCHANGED <<textVars, uploaded_file, bound, raster, images, api_calls,
                   api_result>>

\* try: the chart of the fixed payments.  Either st.bar_chart returns and
\* the else clause of the try follows, or it raises and the except clause
\* follows, which starts with a warning and the exception
ChartTry ==
    /\ pc = "chart_try"
    /\ \/ /\ Render(<< Element("subheader", "Estimated Payment Structure"),
                       Element("bar_chart", "chart_df") >>)
          /\ pc' = "else_clause"
       \/ /\ Render(<< Element("subheader", "Estimated Payment Structure"),
                       Element("warning", "Unable to generate payment chart."),
                       Element("exception", "e") >>)
          /\ pc' = "summary_block"
    /\ UNCHANGED <<textVars, uploaded_file, bound, raster, images, api_calls,
                   api_result, error>>

\* else: st.info("Please upload a single PDF to begin analysis.")
ElseClause ==
    /\ pc = "else_clause"
    /\ Render(<< Element("info", "Please upload a single PDF to begin analysis.") >>)
    /\ pc' = "done"
    /\ UNCHANGED <<textVars, uploaded_file, bound, raster, images, api_calls,
                   api_result, error>>

\* the LLM summary, inside the except clause of the chart
SummaryBlock ==
    /\ pc = "summary_block"
    /\ LET c == clean_text(text)
           summary_input == IF c # Sentinel THEN c
                            ELSE Slice(Strip(text), 1, SummaryFallbackLen)
       IN  \E env \in ApiEnvironments :
              LET r == summarize_with_api(summary_input, env)
              IN  /\ cleaned' = c
                  /\ api_calls' = Append(api_calls, summary_input)
                  /\ api_result' = r
                  /\ Render(<< Element("subheader", "LLM Summary"),
                               Element("text_area", summary_input) >>
                            \o IF r.raised
                               THEN << Element("error",
                                               "Hugging Face API summarization failed."),
                                       Element("exception", r.value) >>
                               ELSE << Element("info", r.value),
                                       Element("download_button", "cta_summary.txt") >>)
    /\ pc' = "risk_section"
    /\ UNCHANGED <<text, ntok, op, recleaned, risks, milestones, clauses, uploaded_file,
                   bound, raster, images, error>>

\* the risk flags, inside the except clause of the chart
RiskSection ==
    /\ pc = "risk_section"
    /\ risks' = flag_risks(text)
    /\ Render(<< Element("subheader", "Risk Flags") >>
              \o IF risks' # << >>
                 THEN [k \in 1..Len(risks') |-> Element("warning", risks'[k])]
                 ELSE << Element("success", "No major risks detected.") >>)
    /\ pc' = "clause_download"
    /\ UNCHANGED <<text, ntok, op, cleaned, recleaned, milestones, clauses, uploaded_file,
                   bound, raster, images, api_calls, api_result, error>>

\* the clause report download, inside the except clause of the chart
ClauseDownload ==
    /\ pc = "clause_download"
    /\ Render(<< Element("download_button", "cta_clauses.xlsx") >>)
    /\ pc' = "done"
    /\ UNCHANGED <<textVars, uploaded_file, bound, raster, images, api_calls,
                   api_result, error>>

(***************************************************************************)
(* Input texts: a text is typed fragment by fragment, then one of the text *)
(* functions is applied to it.                                             *)
(***************************************************************************)
CleanVocab ==
    { "Sponsor shall pay\n", "  padded line here  \n", "abcdefghij\n", "abcdefghijk",
      "12345678901\n", "WHEREAS the parties\r\n", "Strictly Confidential\n",
      " \f", " short one  \n" }

CleanBulk == { "Sponsor shall pay\n", "Whereas, it is agreed\n" }

RiskVocab ==
    { "termination for convenience. ", "Sole Discretion", "NO OBLIGATION TO PAY\n",
      "sole discretio", "n ", "no obligation", " to pay", "termination for\nconvenience " }

MilestoneVocab ==
    { "first subject in", "First Subject In", "fsi", "FSI", " ", "to", "_fsi",
      "LSO: last subject out; irb submission\n",
      "study close out, closeout visit\nactivation date. Enrollment Completion" }

ClauseVocab ==
    { "$41,254.93", "$1", "234", ",567", ".5", " ", "$",
      "Sponsor: Acme Pharma\nInstitution: Metro Hospital\r\n",
      "the Investigator may terminate. Sponsor Indemnification" }

TypeToken(V, max) ==
    /\ op = "input"
    /\ ntok < max
    /\ \E tok \in V : text' = text \o tok
    /\ ntok' = ntok + 1
    /\ UNCHANGED <<op, results, passVars>>

TypeBulk(V, max) ==
    /\ op = "input"
    /\ ntok < max
    /\ \E tok \in V : text' = text \o Repeat(tok, BulkCount)
    /\ ntok' = ntok + 1
    /\ UNCHANGED <<op, results, passVars>>

\* blank filler up to the end of the window the clause search looks at
PadToWindow(max) ==
    /\ op = "input"
    /\ ntok <= 1
    /\ ntok < max
    /\ Len(text) < ClauseWindow
    /\ text' = text \o Repeat(" ", ClauseWindow - Len(text))
    /\ ntok' = ntok + 1
    /\ UNCHANGED <<op, results, passVars>>

RunCleanText ==
    /\ op = "input"
    /\ op' = "clean_text"
    /\ cleaned' = clean_text(text)
    /\ UNCHANGED <<text, ntok, recleaned, risks, milestones, clauses, passVars>>

RunCleanTextAgain ==
    /\ op = "clean_text"
    /\ op' = "clean_text_twice"
    /\ recleaned' = clean_text(cleaned)
    /\ UNCHANGED <<text, ntok, cleaned, risks, milestones, clauses, passVars>>

RunFlagRisks ==
    /\ op = "input"
    /\ op' = "flag_risks"
    /\ risks' = flag_risks(text)
    /\ UNCHANGED <<text, ntok, cleaned, recleaned, milestones, clauses, passVars>>

RunExtractMilestones ==
    /\ op = "input"
    /\ op' = "extract_milestones"
    /\ milestones' = extract_milestones(text)
    /\ UNCHANGED <<text, ntok, cleaned, recleaned, risks, clauses, passVars>>

RunExtractKeyClauses ==
    /\ op = "input"
    /\ op' = "extract_key_clauses"
    /\ clauses' = extract_key_clauses(text)
    /\ UNCHANGED <<text, ntok, cleaned, recleaned, risks, milestones, passVars>>

Init ==
    /\ text = ""
    /\ ntok = 0
    /\ op = "input"
    /\ cleaned = ""
    /\ recleaned = ""
    /\ risks = << >>
    /\ milestones = << >>
    /\ clauses = << >>
    /\ pc = "file_uploader"
    /\ uploaded_file = None
    /\ bound = FALSE
    /\ rendered = << >>
    /\ raster = [invoked |-> FALSE, from |-> 0]
    /\ images = << >>
    /\ api_calls = << >>
    /\ api_result = [called |-> FALSE, raised |-> FALSE, value |-> ""]
    /\ error = "none"

NextClean ==
    \/ TypeToken(CleanVocab, MaxLineTokens)
    \/ TypeBulk(CleanBulk, MaxLineTokens)
    \/ RunCleanText
    \/ RunCleanTextAgain

SpecClean == Init /\ [][NextClean]_vars

NextRisk ==
    \/ TypeToken(RiskVocab, MaxRiskTokens)
    \/ RunFlagRisks

SpecRisk == Init /\ [][NextRisk]_vars

NextMilestones ==
    \/ TypeToken(MilestoneVocab, MaxMilestoneTokens)
    \/ RunExtractMilestones

SpecMilestones == Init /\ [][NextMilestones]_vars

NextClauses ==
    \/ TypeToken(ClauseVocab, MaxClauseTokens)
    \/ PadToWindow(MaxClauseTokens)
    \/ RunExtractKeyClauses

SpecClauses == Init /\ [][NextClauses]_vars

NextPass ==
    \/ FileUploader
    \/ ExtractText
    \/ SkipUploadBlock
    \/ ClauseSection
    \/ MilestoneSection
    \/ PaymentSection
    \/ ChartTry
    \/ ElseClause
    \/ SummaryBlock
    \/ RiskSection
    \/ ClauseDownload

SpecPass == Init /\ [][NextPass]_vars

(***************************************************************************)
(* Properties of clean_text.                                               *)
(***************************************************************************)
\* a line qualifies: trimmed length > 10, not all digits, not starting with
\* "whereas" and not containing "confidential" in any letter case
Qualifies(line) ==
    LET s == Strip(line)
    IN  /\ Len(s) > 10
        /\ \E i \in 1..Len(s) : ~IsDigitChar(Char(s, i))
        /\ ~(Len(s) >= 7 /\ Lower(SubSeq(s, 1, 7)) = "whereas")
        /\ ~\E i \in 1..(Len(s) - 11) : Lower(SubSeq(s, i, i + 11)) = "confidential"

QualifyingLines(t) ==
    LET lines == SplitLines(t)
    IN  {i \in 1..Len(lines) : Qualifies(lines[i])}

\* C6: whenever no line of the text qualifies (the empty text included),
\* clean_text returns exactly "No usable text found.", never the empty string.
C6_SentinelWhenNothingQualifies ==
    (op \in {"clean_text", "clean_text_twice"} /\ QualifyingLines(text) = {})
        => (cleaned = "No usable text found." /\ cleaned # "")

\* a text with lines, none of which qualifies, has been cleaned
C6_Witness ==
    /\ op = "clean_text"
    /\ Len(SplitLines(text)) >= 2
    /\ QualifyingLines(text) = {}
    /\ cleaned = "No usable text found."

\* C7: clean_text is idempotent: cleaning the cleaned text changes nothing.
C7_Idempotent ==
    op = "clean_text_twice" => recleaned = cleaned

\* more than 30 lines qualified, the excerpt is one long line, cleaned twice
C7_Witness ==
    /\ op = "clean_text_twice"
    /\ Cardinality(QualifyingLines(text)) > 30
    /\ Len(cleaned) > 300
    /\ Len(SplitLines(cleaned)) = 1
    /\ recleaned = cleaned

(***************************************************************************)
(* Properties of flag_risks.                                               *)
(***************************************************************************)
RiskTable ==
    << [phrase |-> "termination for convenience", warning |-> "Termination may favor sponsor"],
       [phrase |-> "sole discretion", warning |-> "One-sided decision-making clause"],
       [phrase |-> "no obligation to pay", warning |-> "Payment obligation is unclear"] >>

OccursIgnoringCase(t, phrase) ==
    \E i \in 1..(Len(t) - Len(phrase) + 1) :
        \A j \in 1..Len(phrase) : LowerChar(Char(t, i + j - 1)) = Char(phrase, j)

Count(seq, x) == Cardinality({i \in DOMAIN seq : seq[i] = x})

RiskRank(w) == CHOOSE k \in 1..Len(RiskTable) : RiskTable[k].warning = w

\* C5: flag_risks returns a subsequence of the fixed warning list: each
\* warning exactly once iff its phrase occurs in the text in any letter
\* case, independently of the other phrases, in the fixed order.
C5_FixedOrderSubsequence ==
    op = "flag_risks" =>
        /\ \A k \in 1..Len(RiskTable) :
              Count(risks, RiskTable[k].warning) =
                  IF OccursIgnoringCase(text, RiskTable[k].phrase) THEN 1 ELSE 0
        /\ \A i \in DOMAIN risks : \E k \in 1..Len(RiskTable) : risks[i] = RiskTable[k].warning
        /\ \A i, j \in DOMAIN risks : i < j => RiskRank(risks[i]) < RiskRank(risks[j])

\* only the last two phrases occur: exactly their two warnings, in order
C5_Witness ==
    /\ op = "flag_risks"
    /\ ~OccursIgnoringCase(text, "termination for convenience")
    /\ OccursIgnoringCase(text, "sole discretion")
    /\ OccursIgnoringCase(text, "no obligation to pay")
    /\ risks = << "One-sided decision-making clause", "Payment obligation is unclear" >>

(***************************************************************************)
(* Properties of extract_milestones.                                       *)
(***************************************************************************)
FsiRow == milestones[1]

\* w occurs at position i of t in any letter case, as whole words
WholeWordAt(t, i, w) ==
    LET e == i + Len(w) - 1
    IN  /\ e <= Len(t)
        /\ Lower(SubSeq(t, i, e)) = w
        /\ (i = 1 \/ ~IsWordChar(Char(t, i - 1)))
        /\ (e = Len(t) \/ ~IsWordChar(Char(t, e + 1)))

\* where the pattern \b(first subject in|fsi)\b matches
FsiMatches(t) ==
    {i \in 1..Len(t) : WholeWordAt(t, i, "first subject in") \/ WholeWordAt(t, i, "fsi")}

\* where the literal phrase stands as whole words
LiteralPhraseMatches(t) ==
    {i \in 1..Len(t) : WholeWordAt(t, i, "first subject in")
                        /\ SubSeq(t, i, i + 15) = "first subject in"}

\* C4 as claimed: every text containing "first subject in" gives the row
\* Mentioned = Yes, Example = "first subject in".
C4_AsClaimed ==
    (op = "extract_milestones" /\ Contains(text, "first subject in"))
        => (FsiRow.Mentioned = "Yes" /\ FsiRow.Example = "first subject in")

\* C4 amended: when "first subject in" stands in the text as whole words,
\* the row has Mentioned = Yes and its Example is the text of the leftmost
\* case-insensitive whole-word match of "first subject in" or "fsi"; it is
\* "first subject in" when the literal phrase is that leftmost match.
C4_LeftmostWholeWordMatch ==
    (op = "extract_milestones" /\ LiteralPhraseMatches(text) # {}) =>
        LET i == Min(FsiMatches(text))
        IN  /\ FsiRow.Milestone = "First Subject In (FSI)"
            /\ FsiRow.Mentioned = "Yes"
            /\ FsiRow.Example =
                  IF WholeWordAt(text, i, "first subject in")
                  THEN SubSeq(text, i, i + 15) ELSE SubSeq(text, i, i + 2)
            /\ (i \in LiteralPhraseMatches(text) => FsiRow.Example = "first subject in")

\* the literal phrase is the leftmost match and "fsi" follows it
C4_Witness ==
    /\ op = "extract_milestones"
    /\ LiteralPhraseMatches(text) # {}
    /\ Min(FsiMatches(text)) \in LiteralPhraseMatches(text)
    /\ Cardinality(FsiMatches(text)) >= 2
    /\ FsiRow.Mentioned = "Yes"
    /\ FsiRow.Example = "first subject in"

(***************************************************************************)
(* Properties of extract_key_clauses.                                      *)
(***************************************************************************)
\* "$", 1 to 3 digits, groups of "," and exactly 3 digits, optionally "."
\* and exactly 2 digits
ConformsToDollarGrammar(s) ==
    \E k \in 1..3, g \in 0..(Len(s) \div 4), c \in {0, 1} :
        /\ Len(s) = 1 + k + 4 * g + 3 * c
        /\ Char(s, 1) = "$"
        /\ \A d \in 2..(k + 1) : IsDigitChar(Char(s, d))
        /\ \A j \in 0..(g - 1) :
              /\ Char(s, k + 2 + 4 * j) = ","
              /\ \A d \in 1..3 : IsDigitChar(Char(s, k + 2 + 4 * j + d))
        /\ c = 1 => /\ Char(s, Len(s) - 2) = "."
                    /\ IsDigitChar(Char(s, Len(s) - 1))
                    /\ IsDigitChar(Char(s, Len(s)))

\* the elements of found occur in t one after the other, from position from
RECURSIVE AppearInOrder(_, _, _, _)
AppearInOrder(t, found, k, from) ==
    IF k > Len(found) THEN TRUE
    ELSE LET i == Find(t, found[k], from)
         IN  i # 0 /\ AppearInOrder(t, found, k + 1, i + Len(found[k]))

\* the positions of t where a "$" is followed by a digit
DollarStarts(t) ==
    {i \in 1..(Len(t) - 1) : Char(t, i) = "$" /\ IsDigitChar(Char(t, i + 1))}

\* C8: every element of "Budget Amounts" conforms to the dollar grammar,
\* and the elements are those of the whole text, in order of appearance,
\* duplicates kept.
C8_BudgetAmountsConform ==
    op = "extract_key_clauses" =>
        /\ \A k \in 1..Len(clauses["Budget Amounts"]) :
              ConformsToDollarGrammar(clauses["Budget Amounts"][k])
        /\ AppearInOrder(text, clauses["Budget Amounts"], 1, 1)
        /\ Len(clauses["Budget Amounts"]) = Cardinality(DollarStarts(text))

\* the same amount twice, the second time beyond the clause window
C8_Witness ==
    /\ op = "extract_key_clauses"
    /\ Len(clauses["Budget Amounts"]) = 2
    /\ clauses["Budget Amounts"][1] = clauses["Budget Amounts"][2]
    /\ \E i \in DollarStarts(text) : i > 2000

(***************************************************************************)
(* Properties of the processing pass.                                      *)
(***************************************************************************)
PassEnded == pc \in {"done", "halted"}

Shown(widget, body) ==
    \E k \in 1..Len(rendered) : rendered[k].widget = widget /\ rendered[k].body = body

OcrNoticeShown ==
    Shown("warning", "Detected a scanned or image-based PDF. Running OCR...")

PromptShown == Shown("info", "Please upload a single PDF to begin analysis.")

TextResolved == pc \notin {"file_uploader", "if_uploaded"} /\ uploaded_file.present

\* the trimmed length of the text layer: its length less the white space
\* at its two ends
TrimmedLength(s) ==
    LET White(i) == Char(s, i) \in {" ", "\t", "\n", "\r", "\f"}
        leading == Cardinality({i \in 1..Len(s) : \A j \in 1..i : White(j)})
        trailing == Cardinality({i \in 1..Len(s) : \A j \in 0..(Len(s) - i) : White(Len(s) - j)})
    IN  IF leading = Len(s) THEN 0 ELSE Len(s) - leading - trailing

\* C2: extract_text_from_pdf decides on the trimmed length of the text
\* layer alone: above 100 it returns the text layer and neither the
\* rasterizer nor OCR runs; at 100 or below it shows the notice and returns
\* the OCR result of the rendered images, empty or not.
C2_BranchOnTrimmedLength ==
    TextResolved =>
        IF TrimmedLength(DirectText(uploaded_file)) > 100
        THEN /\ bound /\ text = DirectText(uploaded_file)
             /\ ~raster.invoked /\ images = << >> /\ ~OcrNoticeShown
        ELSE /\ OcrNoticeShown /\ raster.invoked
             /\ bound => text = Join("", [k \in 1..Len(images) |-> images[k].scan])
             /\ ~bound => pc = "halted"

\* a text layer of more than 100 characters that trims to exactly 100: the
\* OCR path was taken and its empty result returned
C2_Witness ==
    /\ TextResolved /\ bound
    /\ Len(DirectText(uploaded_file)) > 100
    /\ TrimmedLength(DirectText(uploaded_file)) = 100
    /\ raster.invoked
    /\ text = ""

SectionShown(title) == Shown("subheader", title)

RiskSectionShown ==
    /\ SectionShown("Risk Flags")
    /\ IF flag_risks(text) = << >>
       THEN Shown("success", "No major risks detected.")
       ELSE \A k \in 1..Len(flag_risks(text)) : Shown("warning", flag_risks(text)[k])

\* C1: a pass with an uploaded document whose text was resolved renders the
\* clause, milestone, payment and risk sections before it ends, whatever
\* the summarizer does.
C1_AllSectionsRendered ==
    (PassEnded /\ uploaded_file.present /\ bound) =>
        /\ SectionShown("Clause Summary")
        /\ SectionShown("Clinical Trial Milestones")
        /\ SectionShown("Payment Terms Summary (Custom)")
        /\ RiskSectionShown

\* scenario D: a text layer under 100 characters and a scan with no text
ScenarioD ==
    /\ uploaded_file.present
    /\ TrimmedLength(DirectText(uploaded_file)) < 100
    /\ \A k \in 1..Len(uploaded_file.pages) : uploaded_file.pages[k].scan = ""

\* C3: in scenario D, once the resolver has returned, the text is empty,
\* clean_text gives the sentinel, the summarizer is called with the empty
\* fallback input, a failure of it is shown as an error, and the pass does
\* not halt.
C3_EmptyDocumentSummarized ==
    (PassEnded /\ ScenarioD /\ bound) =>
        /\ text = ""
        /\ clean_text(text) = "No usable text found."
        /\ api_calls = << "" >>
        /\ api_result.raised => Shown("error", "Hugging Face API summarization failed.")
        /\ pc = "done"

\* C9: on the OCR path the rasterizer is given the complete byte stream,
\* whatever the read position of the upload stream, so that every page is
\* rendered and recognized once, in page order.
C9_RasterizerGetsWholeStream ==
    raster.invoked =>
        /\ raster.from = 0
        /\ bound => /\ images = uploaded_file.pages
                    /\ text = Join("", [k \in 1..Len(uploaded_file.pages) |->
                                            uploaded_file.pages[k].scan])

\* C10: the upload prompt is rendered iff no document was uploaded, and a
\* pass without a document ends without an error and without an extractor
\* having run.
C10_PromptIffNoUpload ==
    PassEnded =>
        /\ PromptShown <=> ~uploaded_file.present
        /\ ~uploaded_file.present =>
              /\ pc = "done"
              /\ error = "none"
              /\ ~SectionShown("Payment Terms Summary (Custom)")

=============================================================================
